---- MODULE Spec2Model ----
(***************************************************************************)
(* Model of groupy.gbb.Gbb, the generic building block: its per-atom,      *)
(* per-residue and topology arrays, its loaders, deletions and geometric   *)
(* transforms.                                                             *)
(*                                                                         *)
(* Conventions.                                                            *)
(*  - numpy arrays are sequences (1-based here); a row of xyz or vel is a  *)
(*    3-tuple; a topology row is <<type, atom, atom, ...>> with 1-indexed  *)
(*    atom numbers, as in the source.                                      *)
(*  - reals are integers; arithmetic is exact.  Rotation angles are given  *)
(*    in quarter turns, for which cos and sin are exactly 0, 1 or -1.      *)
(*  - an optional Python argument is <<>> (None) or <<v>>.                 *)
(*  - an operation is an operator from the structure (a record of the      *)
(*    fields of self) to [err, g]: the exception raised ("ok" for none)    *)
(*    and the structure as the call leaves it, partial updates included.   *)
(***************************************************************************)
EXTENDS Integers, Sequences, FiniteSets, TLC

\* ------------------------------------------------------------------ bounds
\* Number of operations applied to a structure after its construction.
MaxOps == 2
\* delete_ions draws its indices from 0..MaxIndex, one or two at a time.
MaxIndex == 4

\* ----------------------------------------------------------------- helpers
None == <<>>
Some(v) == <<v>>

\* Python truthiness of an optional number, and of an optional string.
TruthyNum(opt) == opt # None /\ opt[1] # 0
TruthyStr(opt) == opt # None /\ opt[1] # ""

Abs(x) == IF x < 0 THEN -x ELSE x

SetMin(S) == CHOOSE x \in S : \A y \in S : x <= y
SetMax(S) == CHOOSE x \in S : \A y \in S : y <= x

\* The elements of s at the (1-based) positions in K, in order.
Filter(s, K) ==
  LET F[i \in 0..Len(s)] ==
        IF i = 0 THEN <<>>
        ELSE IF i \in K THEN Append(F[i-1], s[i]) ELSE F[i-1]
  IN F[Len(s)]

SumSeq(s) ==
  LET F[i \in 0..Len(s)] == IF i = 0 THEN 0 ELSE F[i-1] + s[i]
  IN F[Len(s)]

\* ------------------------------------------------------------------- state
VARIABLES
  n_atoms, n_bonds, n_angles, n_dihedrals,   \* tracked counts
  resids, resnames,                          \* per residue entry
  types, masses, charges, xyz, vel,          \* per atom
  masses_2d,                                 \* masses has shape (N, 1), not (N,)
  bonds, angles, dihedrals, impropers,       \* connectivity
  com,                                       \* cached centre of mass
  box,                                       \* the caller's Box
  last,                                      \* the last call: op, arg, err, pre
  nops,                                      \* calls made so far
  orig,                                      \* the structure copy.copy was given
  shared                                     \* arrays it shares with this one

gvars == <<n_atoms, n_bonds, n_angles, n_dihedrals, resids, resnames, types,
           masses, charges, xyz, vel, masses_2d, bonds, angles, dihedrals,
           impropers, com>>
vars == <<gvars, box, last, nops, orig, shared>>

\* The structure as one record.
Self ==
  [n_atoms |-> n_atoms, n_bonds |-> n_bonds, n_angles |-> n_angles,
   n_dihedrals |-> n_dihedrals, resids |-> resids, resnames |-> resnames,
   types |-> types, masses |-> masses, charges |-> charges, xyz |-> xyz,
   vel |-> vel, masses_2d |-> masses_2d, bonds |-> bonds, angles |-> angles,
   dihedrals |-> dihedrals, impropers |-> impropers, com |-> com]

\* The centre of mass is the rational vector num / den; den = 0 stands for
\* the nan of 0/0 and for the unset contents of np.empty.
NoCom == [num |-> <<0, 0, 0>>, den |-> 0]

\* Gbb.__init__ before any prototype is loaded: every array empty.
EmptyGbb ==
  [n_atoms |-> 0, n_bonds |-> 0, n_angles |-> 0, n_dihedrals |-> 0,
   resids |-> <<>>, resnames |-> <<>>,
   types |-> <<>>, masses |-> <<>>, charges |-> <<>>, xyz |-> <<>>,
   vel |-> <<>>, masses_2d |-> TRUE,
   bonds |-> <<>>, angles |-> <<>>, dihedrals |-> <<>>, impropers |-> <<>>,
   com |-> NoCom]

Ok(g) == [err |-> "ok", g |-> g]
Raise(e, g) == [err |-> e, g |-> g]

\* The arrays some method writes where they are (xyz[:, 0] += ..., bond[1] =
\* ...); every other array is only ever assigned anew.  Two structures that
\* hold one such array see each other's writes to it.
AliasFields == {"xyz", "bonds", "angles", "dihedrals", "impropers"}
Arrays(g) ==
  [xyz |-> g.xyz, bonds |-> g.bonds, angles |-> g.angles,
   dihedrals |-> g.dihedrals, impropers |-> g.impropers]

\* ------------------------------------------------------------------- Box
\* An axis-aligned box: mins, maxs and lengths = maxs - mins per dimension.
MkBox(mins, maxs) ==
  [mins |-> mins, maxs |-> maxs,
   lengths |-> [k \in 1..3 |-> maxs[k] - mins[k]]]

Boxes ==
  { MkBox(<<0, 0, 0>>, <<10, 10, 10>>),
    MkBox(<<-2, -3, -4>>, <<2, 3, 4>>) }

\* ------------------------------------------------------------ input files
\* What read_xyz returns: (xyz, types).
XyzFiles ==
  { [xyz |-> << <<0, 0, 0>>, <<9, 0, 0>> >>, types |-> <<"C", "C">>] }

\* What read_gro returns: resids, resnames, types, xyz, vel (and a box).
GroFiles ==
  { [resids |-> <<1, 2, 2, 2, 2>>,
     resnames |-> <<"NA", "PEG", "PEG", "PEG", "PEG">>,
     types |-> <<"NA", "C", "O", "C", "H">>,
     xyz |-> << <<1, 1, 1>>, <<4, 4, 4>>, <<5, 4, 4>>, <<6, 4, 4>>,
                <<6, 5, 4>> >>,
     vel |-> << <<0, 0, 0>>, <<1, 0, 0>>, <<0, 1, 0>>, <<0, 0, 1>>,
                <<1, 1, 0>> >>],
    [resids |-> <<1, 1>>, resnames |-> <<"SOL", "SOL">>,
     types |-> <<"OW", "HW">>,
     xyz |-> << <<0, 0, 0>>, <<-7, 12, 0>> >>,
     vel |-> <<>>] }

\* What read_lammps_data returns: a three-atom chain.
LammpsFiles ==
  { [xyz |-> << <<3, 3, 3>>, <<8, 3, -2>>, <<9, 4, 13>> >>,
     types |-> <<"1", "2", "1">>,
     masses |-> <<1, 2, 1>>,
     charges |-> <<1, -1, 0>>,
     bonds |-> << <<1, 1, 2>>, <<1, 2, 3>> >>,
     angles |-> << <<1, 1, 2, 3>> >>,
     dihedrals |-> <<>>] }

\* Numeric tables read by np.loadtxt.
MassFiles == { <<1, 1>> }
ChargeFiles == { <<1, -1>> }
CoordFiles == { << <<"1", 0, 0, 0>>, <<"2", 5, 0, 0>>, <<"2", 0, -5, 15>> >> }
BondFiles == { << <<1, 1, 2>>, <<1, 2, 3>> >> }
AngleFiles == { << <<1, 1, 2, 3>>, <<1, 2, 3, 4>> >> }
DihedralFiles == { << <<1, 1, 2, 3, 4>>, <<1, 2, 3, 4, 5>> >> }
ImproperFiles == { << <<1, 3, 2, 4, 5>>, <<2, 2, 1, 3, 4>> >> }

\* A section of a prototype XML document: the element is present or not; its
\* text is a sequence of lines (each a sequence of tokens), the first of
\* which is the rest of the line holding the opening tag.
Section(rows) == [present |-> TRUE, lines |-> << <<>> >> \o rows]
Absent == [present |-> FALSE, lines |-> <<>>]

XmlDoc(pos, m, q, t, b, a, d, i) ==
  [position |-> pos, mass |-> m, charge |-> q, type |-> t,
   bond |-> b, angle |-> a, dihedral |-> d, improper |-> i]

\* Two atoms, the second the periodic image of x = -1; no topology.
XmlPair ==
  XmlDoc(Section(<< <<0, 0, 0>>, <<9, 0, 0>> >>),
         Section(<< <<1>>, <<1>> >>), Section(<< <<0>>, <<0>> >>),
         Section(<< <<"C">>, <<"C">> >>), Absent, Absent, Absent, Absent)

\* An ion followed by a four-atom chain with bonds, angles, a dihedral and
\* an improper.
XmlChain ==
  XmlDoc(Section(<< <<1, 2, 3>>, <<6, -3, 3>>, <<-14, 27, 8>>, <<5, 2, -9>>,
                    <<-2, 8, 3>> >>),
         Section(<< <<4>>, <<1>>, <<2>>, <<1>>, <<1>> >>),
         Section(<< <<1>>, <<0>>, <<-1>>, <<0>>, <<0>> >>),
         Section(<< <<"NA">>, <<"C">>, <<"O">>, <<"C">>, <<"H">> >>),
         Section(<< <<1, 2, 3>>, <<1, 3, 4>>, <<2, 4, 5>> >>),
         Section(<< <<1, 2, 3, 4>>, <<1, 3, 4, 5>> >>),
         Section(<< <<1, 2, 3, 4, 5>> >>),
         Section(<< <<1, 3, 2, 4, 5>> >>))

\* One ion sitting on the upper x face of the first box.
XmlIon ==
  XmlDoc(Section(<< <<10, 0, -4>> >>), Section(<< <<2>> >>),
         Section(<< <<1>> >>), Section(<< <<"NA">> >>),
         Absent, Absent, Absent, Absent)

\* No mass element.
XmlNoMass ==
  XmlDoc(Section(<< <<0, 0, 0>> >>), Absent, Section(<< <<0>> >>),
         Section(<< <<"C">> >>), Absent, Absent, Absent, Absent)

\* Three positions for two masses, charges and types.
XmlShort ==
  XmlDoc(Section(<< <<0, 0, 0>>, <<1, 0, 0>>, <<2, 0, 0>> >>),
         Section(<< <<3>>, <<3>> >>), Section(<< <<0>>, <<1>> >>),
         Section(<< <<"H">>, <<"H">> >>),
         Section(<< <<1, 1, 2>> >>), Absent, Absent, Absent)

\* One type for two positions, masses and charges.
XmlBadTypes ==
  XmlDoc(Section(<< <<0, 0, 0>>, <<1, 0, 0>> >>),
         Section(<< <<1>>, <<1>> >>), Section(<< <<0>>, <<0>> >>),
         Section(<< <<"H">> >>), Absent, Absent, Absent, Absent)

\* The prototypes a structure is constructed from, and those loaded later.
Prototypes == {XmlPair, XmlChain, XmlIon}
XmlFiles == {XmlPair, XmlNoMass, XmlShort, XmlBadTypes}

\* (skip_coords, skip_types, skip_masses)
SkipFlags ==
  { <<FALSE, FALSE, FALSE>>, <<TRUE, FALSE, FALSE>>,
    <<FALSE, TRUE, FALSE>>, <<FALSE, FALSE, TRUE>> }

\* ----------------------------------------------------------------- loaders
load_mass(g, f) == Ok([g EXCEPT !.masses = f, !.masses_2d = FALSE])
load_charge(g, f) == Ok([g EXCEPT !.charges = f])
load_bond(g, f) == Ok([g EXCEPT !.bonds = f])
load_angle(g, f) == Ok([g EXCEPT !.angles = f])
load_dihedral(g, f) == Ok([g EXCEPT !.dihedrals = f])
load_improper(g, f) == Ok([g EXCEPT !.impropers = f])

load_coord(g, f) ==
  Ok([g EXCEPT !.types = [i \in 1..Len(f) |-> f[i][1]],
               !.xyz = [i \in 1..Len(f) |-> SubSeq(f[i], 2, Len(f[i]))]])

load_xyz(g, f) ==
  Ok([g EXCEPT !.xyz = f.xyz, !.types = f.types, !.n_atoms = Len(f.xyz)])

load_gro(g, f) ==
  Ok([g EXCEPT !.resids = f.resids, !.resnames = f.resnames,
               !.types = f.types, !.xyz = f.xyz, !.vel = f.vel,
               !.n_atoms = Len(f.xyz)])

load_lammps_data(g, f) ==
  Ok([g EXCEPT !.xyz = f.xyz, !.types = f.types, !.masses = f.masses,
               !.masses_2d = FALSE, !.charges = f.charges,
               !.bonds = f.bonds, !.angles = f.angles,
               !.dihedrals = f.dihedrals, !.n_atoms = Len(f.xyz)])

\* text.splitlines()[1:]
SkipFirstLine(lines) == IF lines = <<>> THEN <<>> ELSE Tail(lines)
\* line.split()[:n]
FirstTokens(line, n) == SubSeq(line, 1, IF Len(line) < n THEN Len(line) ELSE n)
\* The rows of a section, n tokens of each line after the first.
ParseRows(sec, n) ==
  LET ls == SkipFirstLine(sec.lines)
  IN [i \in 1..Len(ls) |-> FirstTokens(ls[i], n)]
\* A one-column table, flattened by np.reshape(a, (a.shape[0])).
Flatten(rows) == [i \in 1..Len(rows) |-> rows[i][1]]

\* The optional topology sections: find() gives None for a missing element,
\* None.text raises AttributeError, which is caught and passed over.
xml_topology(g, doc) ==
  [g EXCEPT
     !.bonds = IF doc.bond.present THEN ParseRows(doc.bond, 3) ELSE @,
     !.angles = IF doc.angle.present THEN ParseRows(doc.angle, 4) ELSE @,
     !.dihedrals =
        IF doc.dihedral.present THEN ParseRows(doc.dihedral, 5) ELSE @,
     !.impropers =
        IF doc.improper.present THEN ParseRows(doc.improper, 5) ELSE @]

load_xml_prototype(g, doc, skip_coords, skip_types, skip_masses) ==
  IF ~doc.position.present \/ ~doc.mass.present \/ ~doc.charge.present
     \/ ~doc.type.present
  THEN Raise("AttributeError", g)
  ELSE
    LET pxyz == ParseRows(doc.position, 3)
        pmasses == ParseRows(doc.mass, 1)
        pcharges == ParseRows(doc.charge, 1)
        ptypes == ParseRows(doc.type, 1)
        counts_ok ==
          /\ IF ~skip_coords
             THEN Len(pxyz) = Len(pmasses) /\ Len(pmasses) = Len(pcharges)
             ELSE Len(pmasses) = Len(pcharges)
          /\ Len(pmasses) = Len(ptypes)
    IN IF ~counts_ok THEN Raise("AssertionError", g)
       ELSE Ok(xml_topology(
              [g EXCEPT !.charges = Flatten(pcharges),
                        !.masses = Flatten(pmasses),
                        !.masses_2d = skip_masses,
                        !.xyz = IF ~skip_coords THEN pxyz ELSE @,
                        !.types = IF ~skip_types THEN Flatten(ptypes) ELSE @],
              doc))

\* The arrays load_xml_prototype assigns anew when it returns.
load_xml_prototype_rebinds(doc, skip_coords) ==
  (IF skip_coords THEN {} ELSE {"xyz"})
    \cup (IF doc.bond.present THEN {"bonds"} ELSE {})
    \cup (IF doc.angle.present THEN {"angles"} ELSE {})
    \cup (IF doc.dihedral.present THEN {"dihedrals"} ELSE {})
    \cup (IF doc.improper.present THEN {"impropers"} ELSE {})

\* Gbb(xml_prototype): the empty structure, then the prototype if one is given.
Gbb(xml_prototype) ==
  IF xml_prototype = None THEN Ok(EmptyGbb)
  ELSE load_xml_prototype(EmptyGbb, xml_prototype[1], FALSE, FALSE, FALSE)

\* --------------------------------------------------------------- insertion
InsertArgs ==
  { [pos |-> <<10, 0, 0>>, atype |-> Some("H"), mass |-> Some(1),
     charge |-> Some(1)],
    [pos |-> <<2, -3, 7>>, atype |-> Some("H"), mass |-> Some(1),
     charge |-> Some(0)],
    [pos |-> <<2, -3, 7>>, atype |-> None, mass |-> None, charge |-> None],
    [pos |-> <<0, 5, 0>>, atype |-> Some("X"), mass |-> Some(0),
     charge |-> Some(-1)] }

insert_atom(g, pos, atype, mass, charge) ==
  Ok([g EXCEPT
        !.xyz = Append(@, pos),
        !.types = IF TruthyStr(atype) THEN Append(@, atype[1]) ELSE @,
        !.masses = IF TruthyNum(mass) THEN Append(@, mass[1]) ELSE @,
        !.masses_2d = IF TruthyNum(mass) THEN FALSE ELSE @,
        !.charges = IF TruthyNum(charge) THEN Append(@, charge[1]) ELSE @])

\* ---------------------------------------------------------------- deletion
\* numpy differs between builds on an index that does not fit the array:
\* a strict build raises IndexError, an old one goes on (np.delete ignores
\* the index; a boolean mask is applied through the positions it sets).

\* np.delete(arr, ids): ids are 0-based.
np_delete_ok(arr, ids, strict) == strict => \A d \in ids : d < Len(arr)
np_delete(arr, ids) == Filter(arr, {i \in 1..Len(arr) : (i - 1) \notin ids})

\* arr[mask]
mask_ok(arr, mask, strict) ==
  /\ strict => Len(arr) = Len(mask)
  /\ \A j \in 1..Len(mask) : mask[j] => j <= Len(arr)
mask_select(arr, mask) ==
  Filter(arr, {j \in 1..Len(arr) : j <= Len(mask) /\ mask[j]})

\* atom_map with the 0-based ids taken for atom numbers (ids + 1 left out).
atom_map_mut(n, ids) ==
  LET step[i \in 0..n] ==
        IF i = 0 THEN [map |-> <<>>, count |-> 1]
        ELSE IF i \in ids
             THEN step[i-1]
             ELSE [map |-> step[i-1].map @@ (i :> step[i-1].count),
                   count |-> step[i-1].count + 1]
  IN step[n].map

\* The renumbering built by counting the atoms that stay: old 1-indexed
\* number -> new 1-indexed number, defined on the atoms not in ids + 1.
atom_map(n, ids) ==
  LET ids_1 == {d + 1 : d \in ids}
      step[i \in 0..n] ==
        IF i = 0 THEN [map |-> <<>>, count |-> 1]
        ELSE IF i \in ids_1
             THEN step[i-1]
             ELSE [map |-> step[i-1].map @@ (i :> step[i-1].count),
                   count |-> step[i-1].count + 1]
  IN step[n].map

\* remap_tuple with a lookup that falls back on the old number: a field that
\* is not a key of the map is kept and nothing is raised.
remap_tuple_mut(tp, m) ==
  [err |-> "ok",
   tp |-> [f \in 1..Len(tp) |->
             IF f >= 2 /\ tp[f] \in DOMAIN m THEN m[tp[f]] ELSE tp[f]]]

\* One tuple, its atom fields looked up left to right; a field that is not
\* a key of the map raises KeyError and leaves the fields after it.
remap_tuple(tp, m) ==
  LET bad == {f \in 2..Len(tp) : tp[f] \notin DOMAIN m}
      stop == IF bad = {} THEN Len(tp) + 1 ELSE SetMin(bad)
  IN [err |-> IF bad = {} THEN "ok" ELSE "KeyError",
      tp |-> [f \in 1..Len(tp) |->
                IF f >= 2 /\ f < stop THEN m[tp[f]] ELSE tp[f]]]

\* The rows of one topology array, in order, up to the first KeyError.
remap_rows(rows, m) ==
  LET r == [t \in 1..Len(rows) |-> remap_tuple(rows[t], m)]
      bad == {t \in 1..Len(rows) : r[t].err # "ok"}
      stop == IF bad = {} THEN Len(rows) + 1 ELSE SetMin(bad)
  IN [err |-> IF bad = {} THEN "ok" ELSE "KeyError",
      rows |-> [t \in 1..Len(rows) |->
                  IF t <= stop THEN r[t].tp ELSE rows[t]]]

\* Lines 103-122: bonds, angles, dihedrals, impropers, in that order.
remap_topology(g, m) ==
  LET b == remap_rows(g.bonds, m)
      a == remap_rows(g.angles, m)
      d == remap_rows(g.dihedrals, m)
      i == remap_rows(g.impropers, m)
      g1 == [g EXCEPT !.bonds = b.rows]
      g2 == [g1 EXCEPT !.angles = a.rows]
      g3 == [g2 EXCEPT !.dihedrals = d.rows]
      g4 == [g3 EXCEPT !.impropers = i.rows]
  IN IF b.err # "ok" THEN Raise(b.err, g1)
     ELSE IF a.err # "ok" THEN Raise(a.err, g2)
     ELSE IF d.err # "ok" THEN Raise(d.err, g3)
     ELSE IF i.err # "ok" THEN Raise(i.err, g4)
     ELSE Ok(g4)

\* Lines 124-129: types, charges, masses, xyz, and vel when it has rows.
delete_rows(g, ids, strict) ==
  LET g1 == [g EXCEPT !.types = np_delete(@, ids)]
      g2 == [g1 EXCEPT !.charges = np_delete(@, ids)]
      g3 == [g2 EXCEPT !.masses = np_delete(@, ids), !.masses_2d = FALSE]
      g4 == [g3 EXCEPT !.xyz = np_delete(@, ids)]
      g5 == [g4 EXCEPT !.vel = np_delete(@, ids)]
  IN IF ~np_delete_ok(g.types, ids, strict) THEN Raise("IndexError", g)
     ELSE IF ~np_delete_ok(g.charges, ids, strict) THEN Raise("IndexError", g1)
     ELSE IF ~np_delete_ok(g.masses, ids, strict) THEN Raise("IndexError", g2)
     ELSE IF ~np_delete_ok(g.xyz, ids, strict) THEN Raise("IndexError", g3)
     ELSE IF Len(g.vel) = 0 THEN Ok(g4)
     ELSE IF ~np_delete_ok(g.vel, ids, strict) THEN Raise("IndexError", g4)
     ELSE Ok(g5)

delete_ions(g, ids, strict) ==
  LET t == remap_topology(g, atom_map(Len(g.xyz), ids))
  IN IF t.err # "ok" THEN t ELSE delete_rows(t.g, ids, strict)

\* delete_ions gets as far as line 127, self.xyz = np.delete(self.xyz, ids, 0).
delete_ions_rebinds(g, ids, strict) ==
  IF /\ remap_topology(g, atom_map(Len(g.xyz), ids)).err = "ok"
     /\ np_delete_ok(g.types, ids, strict)
     /\ np_delete_ok(g.charges, ids, strict)
     /\ np_delete_ok(g.masses, ids, strict)
     /\ np_delete_ok(g.xyz, ids, strict)
  THEN {"xyz"} ELSE {}

delete_residue(g, i, strict) ==
  LET keep_these == [j \in 1..Len(g.resids) |-> g.resids[j] # i]
      g1 == [g EXCEPT !.resids = mask_select(@, keep_these)]
      g2 == [g1 EXCEPT !.resnames = mask_select(@, keep_these)]
      g3 == [g2 EXCEPT !.types = mask_select(@, keep_these)]
      g4 == [g3 EXCEPT !.xyz = mask_select(@, keep_these)]
      g5 == [g4 EXCEPT !.vel = mask_select(@, keep_these)]
  IN IF ~mask_ok(g.resnames, keep_these, strict) THEN Raise("IndexError", g1)
     ELSE IF ~mask_ok(g.types, keep_these, strict) THEN Raise("IndexError", g2)
     ELSE IF ~mask_ok(g.xyz, keep_these, strict) THEN Raise("IndexError", g3)
     ELSE IF ~mask_ok(g.vel, keep_these, strict) THEN Raise("IndexError", g4)
     ELSE Ok(g5)

\* delete_residue gets as far as line 141, self.xyz = self.xyz[keep_these].
delete_residue_rebinds(g, i, strict) ==
  LET keep_these == [j \in 1..Len(g.resids) |-> g.resids[j] # i]
  IN IF /\ mask_ok(g.resnames, keep_these, strict)
        /\ mask_ok(g.types, keep_these, strict)
        /\ mask_ok(g.xyz, keep_these, strict)
     THEN {"xyz"} ELSE {}

\* ------------------------------------------------------ derived properties
\* calc_com: np.sum(xyz.T * masses, axis=1) / np.sum(masses).  With masses of
\* shape (N,) atom i is weighted by masses[i].  With masses of shape (N, 1)
\* the product broadcasts only for N = 1, and for N = 3, where it weights
\* dimension k by masses[k]; any other N raises ValueError.
calc_com(g) ==
  LET n == Len(g.xyz)
      m == g.masses
      by_atom == [k \in 1..3 |-> SumSeq([i \in 1..n |-> g.xyz[i][k] * m[i]])]
      by_dim == [k \in 1..3 |-> SumSeq([i \in 1..n |-> g.xyz[i][k] * m[k]])]
  IN IF n # Len(m) THEN Raise("AssertionError", g)
     ELSE IF g.masses_2d /\ n \notin {1, 3} THEN Raise("ValueError", g)
     ELSE Ok([g EXCEPT !.com =
                [num |-> IF g.masses_2d /\ n = 3 THEN by_dim ELSE by_atom,
                 den |-> SumSeq(m)]])

\* com[k] < c and com[k] > c for the rational com; nan compares false.
ComBelow(c, k, v) == c.den > 0 /\ c.num[k] < v * c.den
ComAbove(c, k, v) == c.den > 0 /\ c.num[k] > v * c.den

\* ----------------------------------------------------------- manipulations
\* xyz[:, k] += d
shift_dim(g, k, d) ==
  [g EXCEPT !.xyz = [i \in 1..Len(@) |-> [@[i] EXCEPT ![k] = @ + d]]]

translate(g, v) == Ok(shift_dim(shift_dim(shift_dim(g, 1, v[1]), 2, v[2]), 3, v[3]))

\* cos and sin of q quarter turns.
Cos4(q) == CASE q % 4 = 0 -> 1 [] q % 4 = 1 -> 0 [] q % 4 = 2 -> -1 [] OTHER -> 0
Sin4(q) == CASE q % 4 = 0 -> 0 [] q % 4 = 1 -> 1 [] q % 4 = 2 -> 0 [] OTHER -> -1

\* np.dot(r, T.T) for the three elemental matrices T.
RotX(r, q) == <<r[1],
                Cos4(q) * r[2] - Sin4(q) * r[3],
                Sin4(q) * r[2] + Cos4(q) * r[3]>>
RotY(r, q) == <<Cos4(q) * r[1] + Sin4(q) * r[3],
                r[2],
                Cos4(q) * r[3] - Sin4(q) * r[1]>>
RotZ(r, q) == <<Cos4(q) * r[1] - Sin4(q) * r[2],
                Sin4(q) * r[1] + Cos4(q) * r[2],
                r[3]>>
\* x, then y, then z, each only for a non-zero angle.
RotXYZ(r, a) ==
  LET r1 == IF a[1] # 0 THEN RotX(r, a[1]) ELSE r
      r2 == IF a[2] # 0 THEN RotY(r1, a[2]) ELSE r1
  IN IF a[3] # 0 THEN RotZ(r2, a[3]) ELSE r2

Neg(v) == <<-v[1], -v[2], -v[3]>>

\* fixed_atom is a 0-based index or None; "if fixed_atom:" is its truth value.
rotate(g, rot_angles, fixed_atom) ==
  LET pivot == TruthyNum(fixed_atom)
      amount_to_move == Neg(g.xyz[fixed_atom[1] + 1])
      g1 == IF pivot THEN translate(g, amount_to_move).g ELSE g
      g2 == [g1 EXCEPT !.xyz = [i \in 1..Len(@) |-> RotXYZ(@[i], rot_angles)]]
  IN IF pivot /\ fixed_atom[1] >= Len(g.xyz) THEN Raise("IndexError", g)
     ELSE IF pivot THEN translate(g2, Neg(amount_to_move))
     ELSE Ok(g2)

\* np.dot gives a new array: self.xyz is assigned anew when some angle is
\* not zero.
rotate_rebinds(g, rot_angles, fixed_atom) ==
  IF /\ \E k \in 1..3 : rot_angles[k] # 0
     /\ ~(TruthyNum(fixed_atom) /\ fixed_atom[1] >= Len(g.xyz))
  THEN {"xyz"} ELSE {}

\* What the array that was self.xyz before the call holds after it: the
\* translation of line 261 is written into it, the rotation and the
\* translation back go to the new array.
rotate_in_place(g, rot_angles, fixed_atom) ==
  IF /\ TruthyNum(fixed_atom) /\ fixed_atom[1] < Len(g.xyz)
     /\ rotate_rebinds(g, rot_angles, fixed_atom) # {}
  THEN translate(g, Neg(g.xyz[fixed_atom[1] + 1])).g.xyz
  ELSE g.xyz

\* groupy.general.anint of the quotient n / d, d > 0: the nearest integer,
\* a tie going away from zero.
anint(n, d) ==
  IF n >= 0 THEN (2 * n + d) \div (2 * d) ELSE -((d - 2 * n) \div (2 * d))

\* unwrap without the test of dim[k]: every dimension is corrected.
unwrap_mut(g, bx, dim) ==
  Ok([g EXCEPT !.xyz =
        [i \in 1..Len(@) |->
           IF i = 1 THEN @[i]
           ELSE [k \in 1..3 |->
                   @[i][k] - bx.lengths[k] * anint(@[i][k] - @[1][k],
                                                   bx.lengths[k])]]])

\* Atom 0 is left alone; it is the anchor of every other atom.
unwrap(g, bx, dim) ==
  Ok([g EXCEPT !.xyz =
        [i \in 1..Len(@) |->
           IF i = 1 THEN @[i]
           ELSE [k \in 1..3 |->
                   IF dim[k]
                   THEN @[i][k] - bx.lengths[k] * anint(@[i][k] - @[1][k],
                                                        bx.lengths[k])
                   ELSE @[i][k]]]])

\* Both branches that move a coordinate read box.lenghts, which a Box does
\* not have: the first coordinate outside [min, max] raises AttributeError.
wrap(g, bx) ==
  IF \E i \in 1..Len(g.xyz), k \in 1..3 :
        g.xyz[i][k] < bx.mins[k] \/ g.xyz[i][k] > bx.maxs[k]
  THEN Raise("AttributeError", g)
  ELSE Ok(g)

\* The two while loops of wrap_com for dimension k, com being current.  A
\* shift that does not move com[k] towards the box is a loop that never ends.
RECURSIVE wrap_com_up(_, _, _)
wrap_com_up(g, bx, k) ==
  IF ~ComBelow(g.com, k, bx.mins[k]) THEN Ok(g)
  ELSE LET g1 == calc_com(shift_dim(g, k, bx.lengths[k])).g
       IN IF g1.com.num[k] <= g.com.num[k] THEN Raise("hang", g1)
          ELSE wrap_com_up(g1, bx, k)

RECURSIVE wrap_com_down(_, _, _)
wrap_com_down(g, bx, k) ==
  IF ~ComAbove(g.com, k, bx.maxs[k]) THEN Ok(g)
  ELSE LET g1 == calc_com(shift_dim(g, k, -bx.lengths[k])).g
       IN IF g1.com.num[k] >= g.com.num[k] THEN Raise("hang", g1)
          ELSE wrap_com_down(g1, bx, k)

RECURSIVE wrap_com_dims(_, _, _)
wrap_com_dims(g, bx, k) ==
  IF k > 3 THEN Ok(g)
  ELSE LET up == wrap_com_up(g, bx, k)
           down == wrap_com_down(up.g, bx, k)
       IN IF up.err # "ok" THEN up
          ELSE IF down.err # "ok" THEN down
          ELSE wrap_com_dims(down.g, bx, k + 1)

wrap_com(g, bx) ==
  LET c == calc_com(g)
  IN IF c.err # "ok" THEN c ELSE wrap_com_dims(c.g, bx, 1)

\* mirror: the result carries the resized box as well.
mirror(g, bx, d) ==
  IF g.xyz = <<>> THEN [err |-> "ValueError", g |-> g, box |-> bx]
  ELSE
    LET zs == {g.xyz[i][3] : i \in 1..Len(g.xyz)}
        z_max == SetMax(zs)
        z_min == SetMin(zs)
        new_box == MkBox([bx.mins EXCEPT ![3] = z_min - 1],
                         [bx.maxs EXCEPT ![3] =
                            z_max + Abs(z_max - z_min) + d + 1])
        new_xyz == [i \in 1..Len(g.xyz) |->
                      <<new_box.mins[1] + Abs(new_box.maxs[1] - g.xyz[i][1]),
                        new_box.mins[2] + Abs(new_box.maxs[2] - g.xyz[i][2]),
                        z_max + d + Abs(z_max - g.xyz[i][3])>>]
    IN [err |-> "ok",
        g |-> [g EXCEPT !.types = @ \o @, !.xyz = @ \o new_xyz],
        box |-> new_box]

\* ----------------------------------------------------------- the structure
Set(g) ==
  /\ n_atoms' = g.n_atoms /\ n_bonds' = g.n_bonds /\ n_angles' = g.n_angles
  /\ n_dihedrals' = g.n_dihedrals /\ resids' = g.resids
  /\ resnames' = g.resnames /\ types' = g.types /\ masses' = g.masses
  /\ charges' = g.charges /\ xyz' = g.xyz /\ vel' = g.vel
  /\ masses_2d' = g.masses_2d /\ bonds' = g.bonds /\ angles' = g.angles
  /\ dihedrals' = g.dihedrals /\ impropers' = g.impropers /\ com' = g.com

\* One call on the structure: r is what the call returns, [err, g]; old is
\* what the arrays the structure held before the call hold after it, and
\* rebound the arrays the call has assigned anew.  A structure that shares an
\* array sees what was written into it until this one is given a new array.
Call(op, arg, r, old, rebound) ==
  /\ nops < MaxOps
  /\ nops' = nops + 1
  /\ last' = [op |-> op, arg |-> arg, err |-> r.err, pre |-> Self,
              prebox |-> box, preorig |-> orig]
  /\ Set(r.g)
  /\ orig' =
       IF orig = None THEN None
       ELSE LET now(f) == IF f \in shared THEN old[f] ELSE orig[1][f]
            IN Some([xyz |-> now("xyz"), bonds |-> now("bonds"),
                     angles |-> now("angles"),
                     dihedrals |-> now("dihedrals"),
                     impropers |-> now("impropers")])
  /\ shared' = shared \ rebound

\* The structure after construction, Gbb() or Gbb(xml_prototype), and the
\* caller's box.
Init ==
  \E p \in {None} \cup {Some(x) : x \in Prototypes}, b \in Boxes :
    LET g == Gbb(p).g
    IN /\ n_atoms = g.n_atoms /\ n_bonds = g.n_bonds
       /\ n_angles = g.n_angles /\ n_dihedrals = g.n_dihedrals
       /\ resids = g.resids /\ resnames = g.resnames /\ types = g.types
       /\ masses = g.masses /\ charges = g.charges /\ xyz = g.xyz
       /\ vel = g.vel /\ masses_2d = g.masses_2d /\ bonds = g.bonds
       /\ angles = g.angles /\ dihedrals = g.dihedrals
       /\ impropers = g.impropers /\ com = g.com
       /\ box = b
       /\ last = [op |-> "Gbb", arg |-> p, err |-> "ok", pre |-> EmptyGbb,
                  prebox |-> b, preorig |-> None]
       /\ nops = 0
       /\ orig = None
       /\ shared = {}

\* ----------------------------------------------------------------- actions
LoadMass ==
  \E f \in MassFiles :
    Call("load_mass", f, load_mass(Self, f), Arrays(Self), {})
    /\ UNCHANGED box
LoadCharge ==
  \E f \in ChargeFiles :
    Call("load_charge", f, load_charge(Self, f), Arrays(Self), {})
    /\ UNCHANGED box
LoadCoord ==
  \E f \in CoordFiles :
    Call("load_coord", f, load_coord(Self, f), Arrays(Self), {"xyz"})
    /\ UNCHANGED box
LoadBond ==
  \E f \in BondFiles :
    Call("load_bond", f, load_bond(Self, f), Arrays(Self), {"bonds"})
    /\ UNCHANGED box
LoadAngle ==
  \E f \in AngleFiles :
    Call("load_angle", f, load_angle(Self, f), Arrays(Self), {"angles"})
    /\ UNCHANGED box
LoadDihedral ==
  \E f \in DihedralFiles :
    Call("load_dihedral", f, load_dihedral(Self, f), Arrays(Self),
         {"dihedrals"})
    /\ UNCHANGED box
LoadImproper ==
  \E f \in ImproperFiles :
    Call("load_improper", f, load_improper(Self, f), Arrays(Self),
         {"impropers"})
    /\ UNCHANGED box
LoadXyz ==
  \E f \in XyzFiles :
    Call("load_xyz", f, load_xyz(Self, f), Arrays(Self), {"xyz"})
    /\ UNCHANGED box
LoadGro ==
  \E f \in GroFiles :
    Call("load_gro", f, load_gro(Self, f), Arrays(Self), {"xyz"})
    /\ UNCHANGED box
LoadLammpsData ==
  \E f \in LammpsFiles :
    Call("load_lammps_data", f, load_lammps_data(Self, f), Arrays(Self),
         {"xyz", "bonds", "angles", "dihedrals"})
    /\ UNCHANGED box
LoadXmlPrototype ==
  \E f \in XmlFiles, s \in SkipFlags :
    LET r == load_xml_prototype(Self, f, s[1], s[2], s[3])
    IN /\ Call("load_xml_prototype", [doc |-> f, skip |-> s], r,
               Arrays(Self),
               IF r.err = "ok" THEN load_xml_prototype_rebinds(f, s[1])
               ELSE {})
       /\ UNCHANGED box

InsertAtom ==
  \E a \in InsertArgs :
    /\ Call("insert_atom", a,
            insert_atom(Self, a.pos, a.atype, a.mass, a.charge),
            Arrays(Self), {"xyz"})
    /\ UNCHANGED box

IdSets == {S \in SUBSET (0..MaxIndex) : Cardinality(S) <= 2}

\* The topology rows are rewritten where they are, the per-atom arrays
\* assigned anew.
DeleteIons ==
  \E ids \in IdSets, strict \in BOOLEAN :
    LET r == delete_ions(Self, ids, strict)
    IN /\ Call("delete_ions", ids, r,
               [Arrays(r.g) EXCEPT !.xyz = xyz],
               delete_ions_rebinds(Self, ids, strict))
       /\ UNCHANGED box

DeleteResidue ==
  \E i \in {1, 2}, strict \in BOOLEAN :
    Call("delete_residue", i, delete_residue(Self, i, strict), Arrays(Self),
         delete_residue_rebinds(Self, i, strict))
    /\ UNCHANGED box

Translate ==
  \E v \in {<<10, 0, -3>>, <<-1, 2, 0>>} :
    LET r == translate(Self, v)
    IN Call("translate", v, r, Arrays(r.g), {}) /\ UNCHANGED box

Rotate ==
  \E a \in {<<0, 0, 1>>, <<1, 0, 0>>, <<3, 2, 1>>},
     f \in {None, Some(0), Some(1)} :
    /\ Call("rotate", [angles |-> a, fixed_atom |-> f], rotate(Self, a, f),
            [Arrays(Self) EXCEPT !.xyz = rotate_in_place(Self, a, f)],
            rotate_rebinds(Self, a, f))
    /\ UNCHANGED box

Unwrap ==
  \E dim \in [1..3 -> BOOLEAN] :
    LET r == unwrap(Self, box, dim)
    IN Call("unwrap", dim, r, Arrays(r.g), {}) /\ UNCHANGED box

Wrap ==
  LET r == wrap(Self, box)
  IN Call("wrap", box, r, Arrays(r.g), {}) /\ UNCHANGED box

WrapCom ==
  LET r == wrap_com(Self, box)
  IN Call("wrap_com", box, r, Arrays(r.g), {}) /\ UNCHANGED box

Mirror ==
  \E d \in {0, 1} :
    LET r == mirror(Self, box, d)
    IN /\ Call("mirror", d, r, Arrays(Self),
               IF r.err = "ok" THEN {"xyz"} ELSE {})
       /\ box' = r.box

\* copy.copy(gbb): a new object whose attributes are the objects the
\* attributes of gbb are.  The calls that follow are made on the new
\* object; orig is the one it was copied from.
Copy ==
  /\ orig = None
  /\ nops < MaxOps
  /\ nops' = nops + 1
  /\ last' = [op |-> "copy", arg |-> None, err |-> "ok", pre |-> Self,
              prebox |-> box, preorig |-> orig]
  /\ orig' = Some(Arrays(Self))
  /\ shared' = AliasFields
  /\ UNCHANGED <<gvars, box>>

\* The coordinates of one chain of a trajectory frame.
Frames == {<< <<0, 0, 0>>, <<9, 0, 0>> >>, << <<1, 1, 1>>, <<2, 12, 1>> >>}

\* gbb.xyz = xyz: the caller gives the structure another position array.
AssignXyz ==
  \E c \in Frames :
    Call("xyz =", c, Ok([Self EXCEPT !.xyz = c]), Arrays(Self), {"xyz"})
    /\ UNCHANGED box

Next ==
  \/ LoadMass \/ LoadCharge \/ LoadCoord \/ LoadBond \/ LoadAngle
  \/ LoadDihedral \/ LoadImproper \/ LoadXyz \/ LoadGro \/ LoadLammpsData
  \/ LoadXmlPrototype
  \/ InsertAtom \/ DeleteIons \/ DeleteResidue
  \/ Translate \/ Rotate \/ Unwrap \/ Wrap \/ WrapCom \/ Mirror

Spec == Init /\ [][Next]_vars

\* The structure under the calls that change which atoms and topology rows
\* it holds.
NextTopology ==
  \/ LoadMass \/ LoadBond \/ LoadImproper \/ LoadGro \/ LoadLammpsData
  \/ InsertAtom \/ DeleteIons \/ DeleteResidue

SpecTopology == Init /\ [][NextTopology]_vars

\* The structure under the calls that move its atoms.
NextGeometry ==
  \/ InsertAtom \/ Translate \/ Rotate \/ Unwrap \/ Wrap \/ WrapCom
  \/ Mirror

SpecGeometry == Init /\ [][NextGeometry]_vars

\* A structure, its copy, and the calls made on the copy that write into
\* its arrays or give it new ones.
NextCopy ==
  \/ Copy \/ AssignXyz \/ Translate \/ Rotate \/ Unwrap \/ WrapCom
  \/ DeleteIons

SpecCopy == Init /\ [][NextCopy]_vars

\* ------------------------------------------------------------- properties
NonLoaderOps ==
  {"insert_atom", "delete_ions", "delete_residue", "translate", "rotate",
   "wrap", "unwrap", "wrap_com", "mirror"}

\* position, type, mass and charge, and velocity when it has rows, are of
\* one length.
EqualLengths(g) ==
  /\ Len(g.types) = Len(g.xyz)
  /\ Len(g.masses) = Len(g.xyz)
  /\ Len(g.charges) = Len(g.xyz)
  /\ Len(g.vel) > 0 => Len(g.vel) = Len(g.xyz)

\* C1: a call of insert_atom, delete_ions, delete_residue, translate, rotate,
\* wrap, unwrap, wrap_com or mirror that returns, made on a structure whose
\* per-atom arrays were of one length, leaves them of one length.
C1_ArraysStayAligned ==
  (last.op \in NonLoaderOps /\ last.err = "ok" /\ EqualLengths(last.pre))
    => EqualLengths(Self)

\* C2: in every reachable state the tracked counts n_atoms, n_bonds, n_angles
\* and n_dihedrals are the lengths of the position, bond, angle and dihedral
\* arrays.
C2_CountsMatchArrays ==
  /\ n_atoms = Len(xyz)
  /\ n_bonds = Len(bonds)
  /\ n_angles = Len(angles)
  /\ n_dihedrals = Len(dihedrals)

\* Every atom reference of every topology row is in 1..atom count.
RowsInRange(rows, n) ==
  \A t \in 1..Len(rows) : \A f \in 2..Len(rows[t]) : rows[t][f] \in 1..n
RefsInRange(g) ==
  /\ RowsInRange(g.bonds, Len(g.xyz))
  /\ RowsInRange(g.angles, Len(g.xyz))
  /\ RowsInRange(g.dihedrals, Len(g.xyz))
  /\ RowsInRange(g.impropers, Len(g.xyz))

\* C3: after delete_ions or delete_residue returns, on a structure whose
\* topology references were in range (and whose residue ids were one per
\* atom), every topology reference is between 1 and the new atom count.
C3_RefsStayInRange ==
  (/\ last.op \in {"delete_ions", "delete_residue"}
   /\ last.err = "ok"
   /\ RefsInRange(last.pre)
   /\ Len(last.pre.resids) = Len(last.pre.xyz))
    => RefsInRange(Self)

\* The atoms some topology row refers to.
RowRefs(rows) == UNION {{rows[t][f] : f \in 2..Len(rows[t])} : t \in 1..Len(rows)}
Referenced(g) ==
  RowRefs(g.bonds) \cup RowRefs(g.angles) \cup RowRefs(g.dihedrals)
    \cup RowRefs(g.impropers)

\* The number of deleted atoms whose 1-indexed number is less than a.
DeletedBelow(ids, a) == Cardinality({d \in ids : d + 1 < a})

\* post holds the entries of pre whose 0-based index is not in ids, in order.
HoldsSurvivors(post, pre, ids) ==
  LET K == {i \in 1..Len(pre) : (i - 1) \notin ids}
  IN /\ Len(post) = Cardinality(K)
     /\ \A i \in K : post[i - DeletedBelow(ids, i)] = pre[i]

\* post is pre with every atom reference a lowered by the number of deleted
\* atoms below a, the type field kept.
Renumbered(post, pre, ids) ==
  /\ Len(post) = Len(pre)
  /\ \A t \in 1..Len(pre) :
       /\ Len(post[t]) = Len(pre[t])
       /\ post[t][1] = pre[t][1]
       /\ \A f \in 2..Len(pre[t]) :
            post[t][f] = pre[t][f] - DeletedBelow(ids, pre[t][f])

\* C4: when delete_ions(ids) returns, on a structure no topology row of which
\* names a deleted atom, each per-atom array holds exactly the entries whose
\* 0-based index is not in ids, in their order, and every topology reference
\* a has become a minus the number of deleted atoms numbered below a, the
\* type fields unchanged.
C4_DeleteRenumbers ==
  (/\ last.op = "delete_ions"
   /\ last.err = "ok"
   /\ Referenced(last.pre) \cap {d + 1 : d \in last.arg} = {})
    => /\ HoldsSurvivors(xyz, last.pre.xyz, last.arg)
       /\ HoldsSurvivors(types, last.pre.types, last.arg)
       /\ HoldsSurvivors(masses, last.pre.masses, last.arg)
       /\ HoldsSurvivors(charges, last.pre.charges, last.arg)
       /\ Len(last.pre.vel) > 0 => HoldsSurvivors(vel, last.pre.vel, last.arg)
       /\ Renumbered(bonds, last.pre.bonds, last.arg)
       /\ Renumbered(angles, last.pre.angles, last.arg)
       /\ Renumbered(dihedrals, last.pre.dihedrals, last.arg)
       /\ Renumbered(impropers, last.pre.impropers, last.arg)

\* delete_ions has removed atoms below kept, bonded ones: rows of all four
\* topology arrays were renumbered.
C4_Witness ==
  /\ last.op = "delete_ions" /\ last.err = "ok"
  /\ last.arg # {}
  /\ Len(xyz) < Len(last.pre.xyz) /\ Len(xyz) > 0
  /\ bonds # last.pre.bonds /\ angles # last.pre.angles
  /\ dihedrals # last.pre.dihedrals /\ impropers # last.pre.impropers

\* r is n / d rounded to the nearest integer, a tie going away from zero.
IsNearest(r, n, d) ==
  \/ 2 * Abs(n - r * d) < d
  \/ 2 * Abs(n - r * d) = d /\ Abs(r) * d > Abs(n)

\* C5: unwrap(box, dim) leaves atom 0 where it was and every coordinate of a
\* dimension whose flag is false unchanged; for every other atom i and
\* enabled dimension k the new coordinate is old - L_k * r, r being
\* (old - anchor_k) / L_k rounded to the nearest integer, ties away from
\* zero.  A second atom at x = 9, the anchor at x = 0 and L = 10, ends at -1.
C5_UnwrapMinimumImage ==
  (last.op = "unwrap" /\ last.err = "ok")
    => LET old == last.pre.xyz
           L == last.prebox.lengths
           dim == last.arg
       IN /\ Len(xyz) = Len(old)
          /\ Len(old) > 0 => xyz[1] = old[1]
          /\ \A i \in 2..Len(old) : \A k \in 1..3 :
               IF dim[k]
               THEN \E r \in -(Abs(old[i][k] - old[1][k]) + 1)
                              ..(Abs(old[i][k] - old[1][k]) + 1) :
                      /\ IsNearest(r, old[i][k] - old[1][k], L[k])
                      /\ xyz[i][k] = old[i][k] - L[k] * r
               ELSE xyz[i][k] = old[i][k]
          /\ (/\ old = << <<0, 0, 0>>, <<9, 0, 0>> >>
              /\ L[1] = 10 /\ dim = <<TRUE, FALSE, FALSE>>)
               => xyz[2][1] = -1

\* unwrap has moved the second atom from x = 9 to x = -1.
C5_Witness ==
  /\ last.op = "unwrap" /\ last.err = "ok"
  /\ last.pre.xyz = << <<0, 0, 0>>, <<9, 0, 0>> >>
  /\ last.prebox.lengths[1] = 10
  /\ last.arg = <<TRUE, FALSE, FALSE>>
  /\ xyz = << <<0, 0, 0>>, <<-1, 0, 0>> >>

PositiveLengths(bx) == \A k \in 1..3 : bx.lengths[k] > 0

\* C6: for a box of positive lengths wrap(box) returns without an error,
\* every coordinate c then satisfies min_k <= c < max_k and differs from
\* its old value by a multiple of the box length.
C6_WrapIntoBox ==
  (last.op = "wrap" /\ PositiveLengths(last.prebox))
    => /\ last.err = "ok"
       /\ Len(xyz) = Len(last.pre.xyz)
       /\ \A i \in 1..Len(xyz) : \A k \in 1..3 :
            /\ last.prebox.mins[k] <= xyz[i][k]
            /\ xyz[i][k] < last.prebox.maxs[k]
            /\ (xyz[i][k] - last.pre.xyz[i][k]) % last.prebox.lengths[k] = 0

\* C7: for a structure of positive total mass (one mass per atom) and a box
\* of positive lengths, wrap_com(box) ends; when it returns the centre of
\* mass satisfies min_k <= com_k < max_k, and all atoms were shifted by one
\* vector, a multiple of the box length in each dimension.
C7_WrapComIntoBox ==
  (/\ last.op = "wrap_com"
   /\ PositiveLengths(last.prebox)
   /\ Len(last.pre.masses) = Len(last.pre.xyz)
   /\ ~last.pre.masses_2d
   /\ SumSeq(last.pre.masses) > 0)
    => /\ last.err = "ok"
       /\ \A k \in 1..3 :
            /\ ~ComBelow(com, k, last.prebox.mins[k])
            /\ ComBelow(com, k, last.prebox.maxs[k])
            /\ \E s \in {xyz[1][k] - last.pre.xyz[1][k]} :
                 /\ s % last.prebox.lengths[k] = 0
                 /\ \A i \in 1..Len(xyz) : xyz[i][k] - last.pre.xyz[i][k] = s

Minus(u, v) == <<u[1] - v[1], u[2] - v[2], u[3] - v[3]>>

\* C8: for every valid fixed_atom, index 0 included, rotate(angles,
\* fixed_atom) leaves that atom where it was and turns every other atom's
\* offset from it by the x-then-y-then-z rotation.
C8_RotatePivotsAboutFixedAtom ==
  (/\ last.op = "rotate"
   /\ last.arg.fixed_atom # None
   /\ last.arg.fixed_atom[1] < Len(last.pre.xyz))
    => LET f == last.arg.fixed_atom[1] + 1
       IN /\ last.err = "ok"
          /\ xyz[f] = last.pre.xyz[f]
          /\ \A i \in 1..Len(xyz) :
               Minus(xyz[i], xyz[f]) =
                 RotXYZ(Minus(last.pre.xyz[i], last.pre.xyz[f]),
                        last.arg.angles)

\* C9: when load_xml_prototype returns from a prototype without a bond
\* (angle, dihedral, improper) element, the structure has no bonds (angles,
\* dihedrals, impropers), whatever it held before.
C9_MissingSectionMeansNone ==
  (last.op = "load_xml_prototype" /\ last.err = "ok")
    => /\ ~last.arg.doc.bond.present => bonds = <<>>
       /\ ~last.arg.doc.angle.present => angles = <<>>
       /\ ~last.arg.doc.dihedral.present => dihedrals = <<>>
       /\ ~last.arg.doc.improper.present => impropers = <<>>

\* The rows of a section: its lines but the first.
RowCount(sec) == IF sec.lines = <<>> THEN 0 ELSE Len(sec.lines) - 1

MandatoryMissing(doc) ==
  ~doc.position.present \/ ~doc.mass.present \/ ~doc.charge.present
    \/ ~doc.type.present

CountsInconsistent(doc, skip_coords) ==
  \/ ~skip_coords /\ RowCount(doc.position) # RowCount(doc.mass)
  \/ RowCount(doc.mass) # RowCount(doc.charge)
  \/ RowCount(doc.mass) # RowCount(doc.type)

\* The errors that report an inconsistent structure: the assertion the code
\* makes on the row counts, and FormatError, the name of the class in prose.
ConsistencyErrors == {"AssertionError", "FormatError"}

\* C10: load_xml_prototype fails with a consistency error whenever a
\* mandatory section (position, mass, charge, type) is missing or the row
\* counts disagree: positions = masses = charges unless coordinates are
\* skipped, masses = charges = types always.
C10_FailsWithConsistencyError ==
  (/\ last.op = "load_xml_prototype"
   /\ \/ MandatoryMissing(last.arg.doc)
      \/ CountsInconsistent(last.arg.doc, last.arg.skip[1]))
    => last.err \in ConsistencyErrors

\* C11: delete_ions(ids) ends with a KeyError, which reaches the caller,
\* whenever some atom of ids (0-based index d, atom number d + 1) is named by
\* a row of the bond, angle, dihedral or improper array.
C11_ReferencedAtomRaisesKeyError ==
  (/\ last.op = "delete_ions"
   /\ Referenced(last.pre) \cap {d + 1 : d \in last.arg} # {})
    => last.err = "KeyError"

\* delete_ions was asked to remove an atom of the structure that a topology
\* row names, next to one that no row names, and raised KeyError.
C11_Witness ==
  /\ last.op = "delete_ions" /\ last.err = "KeyError"
  /\ \E d \in last.arg :
       d + 1 \in Referenced(last.pre) /\ d < Len(last.pre.xyz)
  /\ \E d \in last.arg : d + 1 \notin Referenced(last.pre)

\* C12: when load_xml_prototype returns, the position array is as before the
\* call if skip_coords was set, the type array if skip_types was set and the
\* mass array if skip_masses was set, while the charges, and each topology
\* section the prototype has, are the prototype's.
C12_SkipFlagsLeaveArraysAsBefore ==
  (last.op = "load_xml_prototype" /\ last.err = "ok")
    => LET doc == last.arg.doc
           skip == last.arg.skip
       IN /\ skip[1] => xyz = last.pre.xyz
          /\ skip[2] => types = last.pre.types
          /\ skip[3] => masses = last.pre.masses
          /\ charges = Flatten(ParseRows(doc.charge, 1))
          /\ doc.bond.present => bonds = ParseRows(doc.bond, 3)
          /\ doc.angle.present => angles = ParseRows(doc.angle, 4)
          /\ doc.dihedral.present => dihedrals = ParseRows(doc.dihedral, 5)
          /\ doc.improper.present => impropers = ParseRows(doc.improper, 5)

\* The calls that write into the arrays the structure holds.
InPlaceOps == {"translate", "unwrap", "wrap_com", "delete_ions"}

\* C13: once a structure has been copied with copy.copy, a call of
\* translate, unwrap, wrap_com or delete_ions on the copy leaves the position
\* and topology arrays of the structure it was copied from as they were.
C13_CopyIsIndependent ==
  (last.preorig # None /\ last.op \in InPlaceOps) => orig = last.preorig

====
